---- MODULE Spec2Model ----
(***************************************************************************)
(* Model of "bachelier_model/Bachelier Model 1.ipynb": the damped Newton   *)
(* root finder newtons_method and the objective functions handed to it.    *)
(*                                                                         *)
(* Numbers.  A float is modelled as an exact extended rational [n, d]:     *)
(*   d > 0          the finite value n/d in lowest terms,                  *)
(*   d = 0, n = 1   +inf,   d = 0, n = -1   -inf,   d = 0, n = 0   NaN.    *)
(* The operators follow IEEE/NumPy for inf and NaN (x/0, inf-inf, 0*inf,   *)
(* comparisons with NaN are false); rounding and the sign of zero are not  *)
(* modelled.  The notebook's kernel is Python 3.7 (NumPy 1.x), which is    *)
(* the behaviour modelled for np.where on a 0-d value and for np.Inf.      *)
(***************************************************************************)
EXTENDS Integers, Sequences, FiniteSets, TLC

\* ------------------------------------------------------------ bounds
\* largest max_iter the caller passes
MaxIterBound == 4
\* longest vector initial guess
MaxLen == 2
\* number of solver calls made one after the other (SpecCalls)
MaxCalls == 3

\* ------------------------------------------------------------ numbers
AbsInt(i) == IF i < 0 THEN -i ELSE i
SgnInt(i) == IF i < 0 THEN -1 ELSE IF i > 0 THEN 1 ELSE 0

RECURSIVE GCD(_, _)
GCD(a, b) == IF b = 0 THEN a ELSE GCD(b, a % b)

\* the float n/d (d = 0 gives inf or NaN by the sign of n)
Num(n, d) ==
    IF d = 0 THEN [n |-> SgnInt(n), d |-> 0]
    ELSE LET g == GCD(AbsInt(n), AbsInt(d))
             s == SgnInt(d)
         IN  [n |-> (s * n) \div g, d |-> (s * d) \div g]

Int2Num(i) == [n |-> i, d |-> 1]
NaN    == [n |-> 0, d |-> 0]
PosInf == [n |-> 1, d |-> 0]
Zero   == Int2Num(0)
One    == Int2Num(1)
Half   == [n |-> 1, d |-> 2]

IsNaN(x) == x.d = 0 /\ x.n = 0
IsInf(x) == x.d = 0 /\ x.n # 0
IsFin(x) == x.d > 0
IsZero(x) == x.d > 0 /\ x.n = 0
\* sign of a non-NaN float, zero counted as positive (unsigned zero)
SgnPos(x) == IF x.n < 0 THEN -1 ELSE 1

Neg(a) == [n |-> -a.n, d |-> a.d]
Abs(a) == [n |-> AbsInt(a.n), d |-> a.d]

Add(a, b) ==
    IF IsNaN(a) \/ IsNaN(b) THEN NaN
    ELSE IF IsInf(a) /\ IsInf(b) THEN (IF a.n = b.n THEN a ELSE NaN)
    ELSE IF IsInf(a) THEN a
    ELSE IF IsInf(b) THEN b
    ELSE Num(a.n * b.d + b.n * a.d, a.d * b.d)

Sub(a, b) == Add(a, Neg(b))

Mul(a, b) ==
    IF IsNaN(a) \/ IsNaN(b) THEN NaN
    ELSE IF IsInf(a) \/ IsInf(b)
         THEN (IF IsZero(a) \/ IsZero(b) THEN NaN
               ELSE Num(SgnPos(a) * SgnPos(b), 0))
    ELSE Num(a.n * b.n, a.d * b.d)

\* NumPy true division: x/0 is inf or NaN (a warning, not an exception)
Div(a, b) ==
    IF IsNaN(a) \/ IsNaN(b) THEN NaN
    ELSE IF IsInf(a) /\ IsInf(b) THEN NaN
    ELSE IF IsInf(a) THEN Num(SgnPos(a) * SgnPos(b), 0)
    ELSE IF IsInf(b) THEN Zero
    ELSE IF IsZero(b) THEN (IF IsZero(a) THEN NaN ELSE Num(SgnPos(a), 0))
    ELSE Num(a.n * b.d, a.d * b.n)

\* a < b; false when either side is NaN
Lt(a, b) ==
    /\ ~IsNaN(a) /\ ~IsNaN(b)
    /\ IF IsInf(a) /\ IsInf(b) THEN a.n < b.n
       ELSE a.n * b.d < b.n * a.d
\* a <= b and a >= b; false when either side is NaN
Leq(a, b) == ~IsNaN(a) /\ ~IsNaN(b) /\ ~Lt(b, a)
Geq(a, b) == Leq(b, a)


\* ------------------------------------------------------------ values
\* A Python value of the solver: a scalar (one float) or a 1-D array; a
\* local name that has not been assigned yet is Unbound.
Scalar(x) == [shape |-> "scalar", v |-> <<x>>]
Vector(xs) == [shape |-> "vector", v |-> xs]
Unbound == [shape |-> "unbound", v |-> <<>>]

\* an operation applied element by element (array broadcasting of one shape)
Map1(Op(_), A) == [shape |-> A.shape, v |-> [i \in 1..Len(A.v) |-> Op(A.v[i])]]
Map2(Op(_, _), A, B) ==
    [shape |-> A.shape, v |-> [i \in 1..Len(A.v) |-> Op(A.v[i], B.v[i])]]

RECURSIVE MaxNaN(_)
\* max of a non-empty sequence of floats, NaN if any element is NaN (np.max)
MaxNaN(xs) ==
    IF Len(xs) = 1 THEN xs[1]
    ELSE LET m == MaxNaN(Tail(xs))
         IN  IF IsNaN(xs[1]) \/ IsNaN(m) THEN NaN
             ELSE IF Lt(xs[1], m) THEN m ELSE xs[1]

\* ------------------------------------------------------------ inputs
\* The residual functions f(R, args) = a*R - price and the derivative
\* functions fprime(R, args) = a*R + b the caller may pass; price is the
\* last element of args, as in the notebook's objective functions.
FSet == {0, 1}
PriceSet == {-1, 0, 2}
DSet == {[a |-> 0, b |-> 1], [a |-> 0, b |-> -1], [a |-> 0, b |-> 0],
         [a |-> 1, b |-> 0], [a |-> 0, b |-> 2]}
TolSet == {[n |-> 1, d |-> 1000], Half, Int2Num(2)}
ScalarGuesses == {0, 1, -1, 2}
VectorElems == {-1, 1, 2}
R0Set ==
    {Scalar(Int2Num(i)) : i \in ScalarGuesses}
    \cup {Vector([k \in DOMAIN xs |-> Int2Num(xs[k])]) :
            xs \in UNION {[1..m -> VectorElems] : m \in 1..MaxLen}}
\* args = (S, K, r, t, price): the notebook's market data with a price
ArgsOf(price) == <<Int2Num(105), Int2Num(105), [n |-> 1, d |-> 100],
                   [n |-> 6, d |-> 73], Int2Num(price)>>

VARIABLES
    f, fprime, R0, max_iter, tol, args, debug,   \* the call's arguments
    npy,              \* f and fprime return NumPy floats (TRUE) or Python floats
    pc,               \* position in newtons_method
    mem,              \* the objects R and old_R may name: the caller's
                      \* guess object "R0", the arrays "a", "b" of the call
    R, old_R, count, epsilon, function_value, function_derivative, ind,
    f_return, fprime_return,                      \* the call's locals
    ret,              \* the returned tuple
    err,              \* the exception raised, "" if none
    iters,            \* Newton iterations completed by this call
    calls,            \* calls started so far with these argument objects
    first,            \* what the first of them returned or raised
    objective,        \* the objective function under evaluation, "" if none
    sigma,            \* its first argument
    obj_out,          \* what it returned or raised
    \* history of the call, read by the properties only
    R_before,         \* the value of R when the iteration began
    f_calls, fprime_calls,   \* evaluations of f and of fprime so far
    f_at, fprime_at,  \* the estimate each was last evaluated at
    fv_hist, dv_hist, \* every function_value and function_derivative so far
    updates,          \* per element, the Newton updates it has undergone
    args0             \* the value of args when the call was made

inputs == <<f, fprime, R0, max_iter, tol, args, debug, npy>>
locals == <<R, old_R, count, epsilon, function_value, function_derivative,
            ind, f_return, fprime_return>>
objvars == <<objective, sigma, obj_out>>
evals == <<R_before, f_calls, fprime_calls, f_at, fprime_at, fv_hist, dv_hist>>
ghosts == <<evals, updates, args0>>
vars == <<inputs, pc, mem, locals, ret, err, iters, calls, first, objvars,
          ghosts>>

\* the objects of the heap: the caller's initial-guess object and the two
\* arrays a call needs at a time (line 265 makes a new one at every
\* iteration; the one before the previous estimate is garbage)
Objects == {"R0", "a", "b"}
NoMem == [o \in Objects |-> Unbound]

NoRet == [len |-> 0, R |-> Unbound, count |-> 0, epsilon |-> NaN,
          function_value |-> Unbound, function_derivative |-> Unbound,
          f_return |-> <<>>, fprime_return |-> <<>>]


\* ------------------------------------------------------------ the call
\* f(R, args = args) and fprime(R, args = args), element by element
ApplyF(fn, A, a) ==
    [shape |-> A.shape,
     v |-> [i \in 1..Len(A.v) |-> Sub(Mul(Int2Num(fn), A.v[i]), a[Len(a)])]]
ApplyFprime(fp, A, a) ==
    [shape |-> A.shape,
     v |-> [i \in 1..Len(A.v) |->
              Add(Mul(Int2Num(fp.a), A.v[i]), Int2Num(fp.b))]]

\* the loop test written with > for >=
LoopCondStrict(eps, t) == Lt(t, eps)
\* while epsilon >= tol
LoopCond(eps, t) == Geq(eps, t)
\* the increment left out
NextCountStuck(c) == c
\* count += 1
NextCount(c) == c + 1
\* the cap test written with > for >=
RunawayStrict(c, m) == c > m
\* if count >= max_iter
Runaway(c, m) == c >= m
\* ind = np.where(function_derivative <= 0)[0]: the positions with dv <= 0,
\* in increasing order (a 0-d value counts as the one-element array)
RECURSIVE Where(_, _)
Where(dv, i) ==
    IF i > Len(dv) THEN <<>>
    ELSE (IF Leq(dv[i], Zero) THEN <<i>> ELSE <<>>) \o Where(dv, i + 1)
\* R = -function_value / function_derivative + R
NewtonStep(fv, dv, r) == Add(Div(Neg(fv), dv), r)
\* np.isscalar(R)
IsScalar(A) == A.shape = "scalar"
\* the step written in place (R -= ...): an array is updated where it is,
\* a Python or NumPy scalar is immutable and is rebound
StepInPlace(r, m) ==
    IF m[r].shape = "vector" THEN r ELSE IF r = "a" THEN "b" ELSE "a"
\* line 265 binds R to the new object its right-hand side creates
StepTarget(r, m) == IF r = "a" THEN "b" ELSE "a"
\* the step with an element left where it is once its own change is below
\* tol (a per-element convergence mask)
RawStepFreeze(fv, dv, A) ==
    [shape |-> A.shape,
     v |-> [i \in 1..Len(A.v) |->
              IF Lt(Abs(Div(fv.v[i], dv.v[i])), tol) THEN A.v[i]
              ELSE NewtonStep(fv.v[i], dv.v[i], A.v[i])]]
RawStep(fv, dv, A) ==
    [shape |-> A.shape,
     v |-> [i \in 1..Len(A.v) |-> NewtonStep(fv.v[i], dv.v[i], A.v[i])]]
\* R[ind] * 0.5 + R[ind]
Damped(x) == Add(Mul(x, Half), x)
InSeq(i, s) == \E k \in 1..Len(s) : s[k] = i
\* R[ind] = R[ind] * 0.5 + R[ind] on a 1-D array
DampAt(A, idx) ==
    [shape |-> A.shape,
     v |-> [i \in 1..Len(A.v) |-> IF InSeq(i, idx) THEN Damped(A.v[i]) ELSE A.v[i]]]
\* the trace written with insert(0, ...) for append
TracePrepend(lst, x) == <<x>> \o lst
\* f_return.append(function_value), fprime_return.append(function_derivative)
TraceAppend(lst, x) == Append(lst, x)
\* the metric divided by the new estimate instead of the previous one
ScalarMetricByNew(r, o) == Abs(Div(Sub(r, o), r))
\* np.abs((R - old_R) / old_R)
ScalarMetric(r, o) == Abs(Div(Sub(r, o), o))
\* np.linalg.norm(R - old_R, np.Inf)
VectorMetric(A, O) == MaxNaN([i \in 1..Len(A.v) |-> Abs(Sub(A.v[i], O.v[i]))])

\* no objective function is being evaluated
NotCalled == [type |-> "none", val |-> <<>>]

\* nothing evaluated yet
NoHistory ==
    /\ R_before = Unbound /\ f_calls = 0 /\ fprime_calls = 0
    /\ f_at = Unbound /\ fprime_at = Unbound
    /\ fv_hist = <<>> /\ dv_hist = <<>>

Init ==
    /\ objective = "" /\ sigma = NaN /\ obj_out = NotCalled
    /\ f \in FSet
    /\ fprime \in DSet
    /\ R0 \in R0Set
    /\ max_iter \in 0..MaxIterBound
    /\ tol \in TolSet
    /\ args \in {ArgsOf(p) : p \in PriceSet}
    /\ debug \in BOOLEAN
    /\ npy \in (IF R0.shape = "scalar" THEN BOOLEAN ELSE {TRUE})
    /\ pc = "call"
    /\ mem = [NoMem EXCEPT !["R0"] = R0]
    /\ R = "none" /\ old_R = "none" /\ count = 0 /\ epsilon = NaN
    /\ function_value = Unbound /\ function_derivative = Unbound
    /\ ind = <<>> /\ f_return = <<>> /\ fprime_return = <<>>
    /\ ret = NoRet /\ err = "" /\ iters = 0
    /\ calls = 1 /\ first = [pc |-> "", err |-> "", ret |-> NoRet]
    /\ NoHistory
    /\ updates = [i \in 1..Len(R0.v) |-> 0]
    /\ args0 = args

Raise(e) ==
    /\ pc' = "raised"
    /\ err' = e
    /\ UNCHANGED <<objvars, inputs, mem, locals, ret, iters, calls, first, ghosts>>

\* lines 246-250: bind the parameters, initialise the locals
Enter ==
    /\ pc = "call"
    /\ R' = "R0"
    /\ count' = 0
    /\ epsilon' = One
    /\ f_return' = <<>>
    /\ fprime_return' = <<>>
    /\ pc' = "while"
    /\ UNCHANGED <<objvars, inputs, mem, old_R, function_value, function_derivative,
                   ind, ret, err, iters, calls, first, ghosts>>

\* line 252: the loop test
While ==
    /\ pc = "while"
    /\ pc' = IF LoopCond(epsilon, tol) THEN "cap" ELSE "return"
    /\ UNCHANGED <<objvars, inputs, mem, locals, ret, err, iters, calls, first, ghosts>>

\* lines 253-256: count the iteration, leave on the cap with (R, count)
Cap ==
    /\ pc = "cap"
    /\ count' = NextCount(count)
    /\ IF Runaway(count', max_iter)
       THEN /\ ret' = [NoRet EXCEPT !.len = 2, !.R = mem[R], !.count = count']
            /\ pc' = "aborted"
       ELSE /\ ret' = ret
            /\ pc' = "eval"
    /\ UNCHANGED <<objvars, inputs, mem, R, old_R, epsilon, function_value,
                   function_derivative, ind, f_return, fprime_return, err,
                   iters, calls, first, ghosts>>

\* lines 258-263: remember R, evaluate f and fprime at R, find dv <= 0
Evaluate ==
    /\ pc = "eval"
    /\ old_R' = R
    /\ function_value' = ApplyF(f, mem[R], args)
    /\ function_derivative' = ApplyFprime(fprime, mem[R], args)
    /\ ind' = Where(function_derivative'.v, 1)
    /\ pc' = "step"
    /\ R_before' = mem[R]
    /\ f_calls' = f_calls + 1 /\ f_at' = mem[R]
    /\ fprime_calls' = fprime_calls + 1 /\ fprime_at' = mem[R]
    /\ fv_hist' = Append(fv_hist, function_value')
    /\ dv_hist' = Append(dv_hist, function_derivative')
    /\ UNCHANGED <<objvars, inputs, mem, R, count, epsilon, f_return, fprime_return,
                   ret, err, iters, calls, first, updates, args0>>

\* line 265: the raw Newton step; Python floats raise on a zero divisor
Step ==
    /\ pc = "step"
    /\ IF ~npy /\ IsZero(function_derivative.v[1])
       THEN Raise("ZeroDivisionError")
       ELSE /\ R' = StepTarget(R, mem)
            /\ mem' = [mem EXCEPT ![R'] =
                          RawStep(function_value, function_derivative, mem[R])]
            /\ pc' = "damp"
            /\ updates' = [i \in 1..Len(updates) |->
                  IF mem'[R'].v[i] = NewtonStep(function_value.v[i],
                                                function_derivative.v[i],
                                                mem[R].v[i])
                  THEN updates[i] + 1 ELSE updates[i]]
            /\ UNCHANGED <<objvars, inputs, old_R, count, epsilon, function_value,
                           function_derivative, ind, f_return, fprime_return,
                           ret, err, iters, calls, first, evals, args0>>


\* lines 267-268: damp the elements with dv <= 0; a scalar R (np.float64 or
\* float) cannot be indexed by ind, so R[ind] raises
Damp ==
    /\ pc = "damp"
    /\ IF Len(ind) > 0 /\ mem[R].shape = "scalar"
       THEN Raise(IF npy THEN "IndexError" ELSE "TypeError")
       ELSE /\ mem' = IF Len(ind) > 0
                      THEN [mem EXCEPT ![R] = DampAt(mem[R], ind)]
                      ELSE mem
            /\ pc' = "metric"
            /\ UNCHANGED <<objvars, inputs, locals, ret, err, iters, calls, first, ghosts>>

\* lines 270-273: the convergence metric; Python floats raise on old_R = 0
Metric ==
    /\ pc = "metric"
    /\ IF IsScalar(mem[R]) /\ ~npy /\ IsZero(mem[old_R].v[1])
       THEN Raise("ZeroDivisionError")
       ELSE /\ epsilon' = IF IsScalar(mem[R])
                          THEN ScalarMetric(mem[R].v[1], mem[old_R].v[1])
                          ELSE VectorMetric(mem[R], mem[old_R])
            /\ pc' = "trace"
            /\ UNCHANGED <<objvars, inputs, mem, R, old_R, count, function_value,
                           function_derivative, ind, f_return, fprime_return,
                           ret, err, iters, calls, first, ghosts>>

\* lines 275-277: the trace lists; the loop body ends here
Trace ==
    /\ pc = "trace"
    /\ f_return' = IF debug THEN TraceAppend(f_return, function_value)
                   ELSE f_return
    /\ fprime_return' = IF debug
                        THEN TraceAppend(fprime_return, function_derivative)
                        ELSE fprime_return
    /\ iters' = iters + 1
    /\ pc' = "while"
    /\ UNCHANGED <<objvars, inputs, mem, R, old_R, count, epsilon, function_value,
                   function_derivative, ind, ret, err, calls, first, ghosts>>

\* line 279: the normal return; function_value and function_derivative are
\* unassigned if the loop body never ran
Return ==
    /\ pc = "return"
    /\ IF function_value = Unbound
       THEN Raise("UnboundLocalError")
       ELSE /\ ret' = [len |-> 7, R |-> mem[R], count |-> count,
                       epsilon |-> epsilon,
                       function_value |-> function_value,
                       function_derivative |-> function_derivative,
                       f_return |-> f_return, fprime_return |-> fprime_return]
            /\ pc' = "converged"
            /\ UNCHANGED <<objvars, inputs, mem, locals, err, iters, calls, first, ghosts>>

Next ==
    \/ Enter
    \/ While
    \/ Cap
    \/ Evaluate
    \/ Step
    \/ Damp
    \/ Metric
    \/ Trace
    \/ Return

Spec == Init /\ [][Next]_vars

Terminated == pc \in {"converged", "aborted", "raised"}

\* the caller calls again with the same argument objects (the cell at lines
\* 331-339 run again): a new frame, every local unassigned, R bound to the
\* caller's guess object as the earlier call left it
Recall ==
    /\ Terminated
    /\ calls < MaxCalls
    /\ calls' = calls + 1
    /\ first' = IF calls = 1 THEN [pc |-> pc, err |-> err, ret |-> ret]
                ELSE first
    /\ R0' = mem["R0"]
    /\ mem' = [NoMem EXCEPT !["R0"] = mem["R0"]]
    /\ pc' = "call"
    /\ R' = "none" /\ old_R' = "none" /\ count' = 0 /\ epsilon' = NaN
    /\ function_value' = Unbound /\ function_derivative' = Unbound
    /\ ind' = <<>> /\ f_return' = <<>> /\ fprime_return' = <<>>
    /\ ret' = NoRet /\ err' = "" /\ iters' = 0
    /\ R_before' = Unbound /\ f_calls' = 0 /\ fprime_calls' = 0
    /\ f_at' = Unbound /\ fprime_at' = Unbound
    /\ fv_hist' = <<>> /\ dv_hist' = <<>>
    /\ updates' = [i \in 1..Len(R0'.v) |-> 0]
    /\ args0' = args
    /\ UNCHANGED <<objvars, f, fprime, max_iter, tol, args, debug, npy>>

NextCalls ==
    \/ Next
    \/ Recall

\* the same call made MaxCalls times, one after the other
SpecCalls == Init /\ [][NextCalls]_vars

\* the call runs on: no step of newtons_method waits for anything
SpecFair == Init /\ [][Next]_vars /\ WF_vars(Next)

TypeOK ==
    /\ pc \in {"call", "while", "cap", "eval", "step", "damp", "metric",
               "trace", "return", "converged", "aborted", "raised",
               "objective", "objective_done"}
    /\ count \in 0..(MaxIterBound + 1)
    /\ iters \in 0..MaxIterBound
    /\ ret.len \in {0, 2, 7}


\* ------------------------------------------------------------ objectives
\* The pricing formulas are kept as expressions: the library functions
\* (np.sqrt, np.log, np.exp, norm.cdf, norm.pdf) are uninterpreted, and float
\* arithmetic on their results builds the expression the code evaluates.
T(op, x, y) == [op |-> op, x |-> x, y |-> y]
U(op, x) == [op |-> op, x |-> x]
np_sqrt(x) == U("sqrt", x)
np_log(x) == U("log", x)
np_exp(x) == U("exp", x)
norm_cdf(x) == U("cdf", x)
norm_pdf(x) == U("pdf", x)
FNeg(x) == U("neg", x)
FAdd(x, y) == T("+", x, y)
FSub(x, y) == T("-", x, y)
FMul(x, y) == T("*", x, y)
FDiv(x, y) == T("/", x, y)
FPow(x, y) == T("**", x, y)

\* Python objects an objective function handles: a float, a tuple of
\* floats, or the exception that ended the evaluation
Float(x) == [type |-> "float", val |-> <<x>>]
Tuple(xs) == [type |-> "tuple", val |-> xs]
Raised(e) == [type |-> e, val |-> <<>>]

\* a - b on Python objects: defined for two floats, TypeError when the left
\* operand is a tuple
PySubFloats(a, b) == Float(FSub(a.val[1], b.val[1]))
PySub(a, b) ==
    IF a.type = "float" /\ b.type = "float" THEN PySubFloats(a, b)
    ELSE Raised("TypeError")

d1_of(sig, S, K, r, t) ==
    FMul(FMul(FDiv(One, sig), FDiv(One, np_sqrt(t))),
         FAdd(np_log(FDiv(S, K)),
              FMul(FAdd(r, FDiv(FPow(sig, Int2Num(2)), Int2Num(2))), t)))
d2_of(sig, S, K, r, t) == FSub(d1_of(sig, S, K, r, t), FMul(sig, np_sqrt(t)))

\* call_price returns the tuple (C, d1, d2)
call_price(sig, S, K, r, t) ==
    LET d1 == d1_of(sig, S, K, r, t)
        d2 == d2_of(sig, S, K, r, t)
        C == FSub(FMul(S, norm_cdf(d1)),
                  FMul(FMul(norm_cdf(d2), K), np_exp(FMul(FNeg(r), t))))
    IN  Tuple(<<C, d1, d2>>)

\* put_price returns the float P
put_price(sig, S, K, r, t) ==
    LET d1 == d1_of(sig, S, K, r, t)
        d2 == d2_of(sig, S, K, r, t)
        P == FAdd(FNeg(FMul(S, norm_cdf(FNeg(d1)))),
                  FMul(FMul(norm_cdf(FNeg(d2)), K), np_exp(FMul(FNeg(r), t))))
    IN  Float(P)

\* bachelier returns the float C
bachelier(sig, S, K, r, t) ==
    LET fwd == FSub(FMul(S, np_exp(FMul(r, t))), K)
        v == np_sqrt(FMul(FDiv(FPow(sig, Int2Num(2)), FMul(Int2Num(2), r)),
                          FSub(np_exp(FMul(FMul(Int2Num(2), r), t)), One)))
        d == FDiv(fwd, v)
        C == FAdd(FMul(FMul(np_exp(FMul(FNeg(r), t)), fwd), norm_cdf(d)),
                  FMul(FMul(np_exp(FMul(FNeg(r), t)), v), norm_pdf(d)))
    IN  Float(C)

call_objective_function(sig, a) ==
    PySub(call_price(sig, a[1], a[2], a[3], a[4]), Float(a[5]))
put_objective_function(sig, a) ==
    PySub(put_price(sig, a[1], a[2], a[3], a[4]), Float(a[5]))
call_ba_objective_function(sig, a) ==
    PySub(bachelier(sig, a[1], a[2], a[3], a[4]), Float(a[5]))

ObjectiveNames ==
    {"call_objective_function", "put_objective_function",
     "call_ba_objective_function"}
\* market data (S, K, r, t, price) and volatilities the objectives are
\* evaluated at; the notebook's values are among them
MarketSet ==
    {<<Int2Num(S), Int2Num(105), [n |-> 1, d |-> 100], t, Int2Num(price)>> :
        S \in {100, 105}, t \in {[n |-> 6, d |-> 73], One}, price \in {3, 4}}
SigmaSet == {Half, [n |-> 3, d |-> 10], [n |-> 63, d |-> 2]}

\* an objective function about to be evaluated on its own
InitObjective ==
    /\ objective \in ObjectiveNames
    /\ sigma \in SigmaSet
    /\ args \in MarketSet
    /\ obj_out = NotCalled
    /\ pc = "objective"
    /\ f = 0 /\ fprime = [a |-> 0, b |-> 1] /\ R0 = Scalar(Half)
    /\ max_iter = 0 /\ tol = Half /\ debug = FALSE /\ npy = TRUE
    /\ mem = NoMem
    /\ R = "none" /\ old_R = "none" /\ count = 0 /\ epsilon = NaN
    /\ function_value = Unbound /\ function_derivative = Unbound
    /\ ind = <<>> /\ f_return = <<>> /\ fprime_return = <<>>
    /\ ret = NoRet /\ err = "" /\ iters = 0
    /\ calls = 0 /\ first = [pc |-> "", err |-> "", ret |-> NoRet]
    /\ NoHistory
    /\ updates = <<>>
    /\ args0 = args

ObjectiveDone(out) ==
    /\ pc = "objective"
    /\ obj_out' = out
    /\ pc' = "objective_done"
    /\ UNCHANGED <<inputs, mem, locals, ret, err, iters, calls, first, ghosts,
                   objective, sigma>>

\* lines 66-73
CallObjective ==
    /\ objective = "call_objective_function"
    /\ ObjectiveDone(call_objective_function(sigma, args))
\* lines 75-82
PutObjective ==
    /\ objective = "put_objective_function"
    /\ ObjectiveDone(put_objective_function(sigma, args))
\* lines 295-302
CallBaObjective ==
    /\ objective = "call_ba_objective_function"
    /\ ObjectiveDone(call_ba_objective_function(sigma, args))

NextObjective ==
    \/ CallObjective
    \/ PutObjective
    \/ CallBaObjective

\* each objective function evaluated once on given (sigma, args)
SpecObjective == InitObjective /\ [][NextObjective]_vars

\* ------------------------------------------------------------ claims
Returned == pc \in {"converged", "aborted"}

\* C1: a call of newtons_method ends by returning a value, never by raising
\* an error (for every f, fprime, R0, max_iter and tol > 0, tol > 1 included).
C1_NeverRaises == pc # "raised"

\* C2: a call that leaves on the iteration cap (max_iter >= 1, no iteration
\* produced epsilon < tol) has performed exactly max_iter Newton iterations
\* and returns the count max_iter.
C2_AbortAfterMaxIter ==
    (pc = "aborted" /\ max_iter >= 1) =>
        (iters = max_iter /\ ret.count = max_iter)

\* C3: every return, converged or aborted, carries the same seven
\* components, so a caller unpacking seven values succeeds on both paths.
C3_SevenComponents == Returned => ret.len = 7

\* C4 as stated: every converged return has epsilon < tol, also when the
\* metric is NaN or infinite.
C4_ConvergedBelowTol == pc = "converged" => Lt(ret.epsilon, tol)

\* C4 amended: every converged return has an epsilon that is not >= tol:
\* epsilon < tol, or epsilon is NaN (which compares false with tol).
C4_ConvergedNotAboveTol ==
    pc = "converged" => (Lt(ret.epsilon, tol) \/ IsNaN(ret.epsilon))

\* a converged return from the default scalar guess 0 with a NaN metric
C4_Witness ==
    /\ pc = "converged"
    /\ R0 = Scalar(Zero)
    /\ iters >= 1
    /\ IsNaN(ret.epsilon)

\* C5: the returned count tells the outcomes apart: a converged return has
\* count < max_iter, an aborted return has count >= max_iter.
C5_CountSeparates ==
    /\ pc = "converged" => ret.count < max_iter
    /\ pc = "aborted" => ret.count >= max_iter

\* a converged return on the last iteration the cap allows
C5_Witness ==
    /\ pc = "converged"
    /\ ret.count = max_iter - 1
    /\ iters = ret.count


\* C8: a call repeated with identical arguments takes the same path and
\* returns the same estimate R and the same count as the first call; nothing
\* an earlier call left behind changes a later one.
C8_Deterministic ==
    (calls >= 2 /\ Terminated) =>
        /\ pc = first.pc
        /\ err = first.err
        /\ ret.R = first.ret.R
        /\ ret.count = first.ret.count

\* a repeated vector call that converged after moving and damping the
\* estimate
C8_Witness ==
    /\ calls >= 2
    /\ pc = "converged"
    /\ R0.shape = "vector"
    /\ ret.R # R0
    /\ Len(ind) > 0
    /\ iters >= 2

\* the estimate the claim names for one element: 1.5 * (R - fv/dv) where
\* dv <= 0, R - fv/dv where dv > 0
ClaimedNext(r, fv, dv) ==
    IF Leq(dv, Zero) THEN Mul([n |-> 3, d |-> 2], Sub(r, Div(fv, dv)))
    ELSE Sub(r, Div(fv, dv))

\* C9: every iteration takes R to the next estimate element by element,
\* Rnext[i] = 1.5 * (R[i] - fv[i]/dv[i]) where dv[i] <= 0 and
\* Rnext[i] = R[i] - fv[i]/dv[i] where dv[i] > 0.
C9_ElementwiseStep ==
    [][pc = "damp" =>
        /\ pc' = "metric"
        /\ \A i \in 1..Len(function_derivative.v) :
              ~IsNaN(function_derivative.v[i]) =>
                  mem'[R'].v[i] = ClaimedNext(mem[old_R].v[i],
                                              function_value.v[i],
                                              function_derivative.v[i])]_vars

\* C10: a non-positive derivative (scalar state or any elements of a vector
\* state) is damped inside the loop and never puts the solver in an error
\* state.
C10_NonPositiveNeverRaises == ~(pc = "raised" /\ Len(ind) > 0)


\* the model price the claim names: the call price C, the put price P, the
\* arithmetic call price
ModelPrice(name, sig, a) ==
    IF name = "call_objective_function"
    THEN call_price(sig, a[1], a[2], a[3], a[4]).val[1]
    ELSE IF name = "put_objective_function"
    THEN put_price(sig, a[1], a[2], a[3], a[4]).val[1]
    ELSE bachelier(sig, a[1], a[2], a[3], a[4]).val[1]

\* C6: each objective function, given args = (S, K, r, t, price), returns
\* without error the single value model_price(sigma, S, K, r, t) - price.
C6_ObjectiveResidual ==
    pc = "objective_done" =>
        /\ obj_out.type = "float"
        /\ obj_out.val = <<FSub(ModelPrice(objective, sigma, args), args[5])>>


\* the metric the claim names, from the estimate before the step and the
\* estimate after the step and the damping
ClaimedMetric(before, after) ==
    IF before.shape = "scalar"
    THEN Div(Abs(Sub(after.v[1], before.v[1])), Abs(before.v[1]))
    ELSE LET ds == {Abs(Sub(after.v[i], before.v[i])) : i \in 1..Len(before.v)}
         IN  IF \E x \in ds : IsNaN(x) THEN NaN
             ELSE CHOOSE m \in ds : \A x \in ds : Leq(x, m)

\* C11: the metric of an iteration is computed from the estimate before the
\* step and the estimate after the step and the damping, eps = |Rnext - R| /
\* |R| for a scalar and eps = max_i |Rnext_i - R_i| for a vector, and the
\* previous estimate is not altered by the in-place damping of Rnext.
C11_MetricFromBeforeAndAfter ==
    /\ pc \in {"step", "damp", "metric", "trace"} => mem[old_R] = R_before
    /\ pc = "trace" => epsilon = ClaimedMetric(R_before, mem[R])

\* a vector iteration that damped an element in place and then measured a
\* finite, nonzero change
C11_Witness ==
    /\ pc = "trace"
    /\ mem[R].shape = "vector"
    /\ Len(ind) > 0
    /\ IsFin(epsilon) /\ ~IsZero(epsilon)
    /\ mem[old_R] = R_before


\* C12: in a vector solve all elements advance in lock step: every iteration
\* updates every element of R, none is frozen or skipped once its own change
\* is below tol while another element's change is still >= tol, and on return
\* every element has undergone the same number of Newton updates.
C12_LockStep ==
    /\ pc \in {"while", "cap", "eval", "return", "converged", "aborted"} =>
          \A i \in 1..Len(updates) : updates[i] = iters
    /\ pc \in {"damp", "metric", "trace"} =>
          \A i \in 1..Len(updates) : updates[i] = iters + 1

\* an iteration of a two-element solve that moved its first element by less
\* than tol (and not by zero) and its second by at least tol, both updated
C12_Witness ==
    /\ pc = "trace"
    /\ mem[R].shape = "vector" /\ Len(mem[R].v) = 2
    /\ mem[R].v[1] # R_before.v[1]
    /\ Lt(Abs(Sub(mem[R].v[1], R_before.v[1])), tol)
    /\ Geq(Abs(Sub(mem[R].v[2], R_before.v[2])), tol)
    /\ updates[1] = iters + 1 /\ updates[2] = iters + 1


\* C13: from an initial guess whose elements are all nonzero, no element of
\* the estimate R is exactly zero after any iteration, so neither the scalar
\* metric's divisor nor the volatility passed to f and fprime is ever zero.
C13_NeverZero ==
    (/\ \A i \in 1..Len(R0.v) : ~IsZero(R0.v[i])
     /\ pc \in {"metric", "trace", "while", "cap", "eval", "return",
                "converged", "aborted"}
     /\ R # "none") =>
        \A i \in 1..Len(mem[R].v) : ~IsZero(mem[R].v[i])


\* C14: with debug = True, after every completed iteration k the two trace
\* lists hold exactly the fv and the dv values of iterations 1..k in order, so
\* on a converged return each list has length count and ends with the returned
\* final fv / dv; with debug off both lists stay empty throughout.
C14_TraceBookkeeping ==
    /\ debug => /\ f_return = SubSeq(fv_hist, 1, iters)
                /\ fprime_return = SubSeq(dv_hist, 1, iters)
                /\ Len(fv_hist) >= iters /\ Len(dv_hist) >= iters
    /\ ~debug => (f_return = <<>> /\ fprime_return = <<>>)
    /\ (pc = "converged" /\ debug) =>
          /\ Len(ret.f_return) = ret.count
          /\ Len(ret.fprime_return) = ret.count
          /\ ret.f_return[ret.count] = ret.function_value
          /\ ret.fprime_return[ret.count] = ret.function_derivative
    /\ (pc = "converged" /\ ~debug) =>
          (ret.f_return = <<>> /\ ret.fprime_return = <<>>)

\* a traced call that converged after at least two iterations with
\* different residuals
C14_Witness ==
    /\ pc = "converged"
    /\ debug
    /\ ret.count >= 2
    /\ Len(ret.f_return) = ret.count
    /\ ret.f_return[1] # ret.f_return[2]


\* how far the call has come: completed iterations, then the position in
\* the loop body
PcRank ==
    CASE pc = "call" -> 0
      [] pc = "while" -> 1
      [] pc = "cap" -> 2
      [] pc = "eval" -> 3
      [] pc = "step" -> 4
      [] pc = "damp" -> 5
      [] pc = "metric" -> 6
      [] pc = "trace" -> 7
      [] pc = "return" -> 8
      [] OTHER -> 9
Rank == 10 * iters + PcRank

\* a call that has not terminated is at a statement of newtons_method whose
\* operands are all assigned, so that statement can run
CanStep ==
    /\ pc \in {"call", "while", "cap", "eval", "step", "damp", "metric",
               "trace", "return"}
    /\ pc # "call" =>
          R \in Objects /\ mem[R].shape \in {"scalar", "vector"}
    /\ pc \in {"step", "damp", "metric", "trace"} =>
          /\ old_R \in Objects /\ mem[old_R].shape = mem[R].shape
          /\ Len(mem[old_R].v) = Len(mem[R].v)
          /\ function_value.shape = mem[R].shape
          /\ function_derivative.shape = mem[R].shape
          /\ Len(function_value.v) = Len(mem[R].v)
          /\ Len(function_derivative.v) = Len(mem[R].v)
          /\ \A k \in 1..Len(ind) : ind[k] \in 1..Len(mem[R].v)

\* C15: every call eventually terminates, and it evaluates f and fprime at
\* most max_iter times each, once per iteration and both at the same current
\* estimate R.  Termination is stated by a rank: every step of the call
\* raises Rank, Rank never exceeds 10 * max_iter + 9, and a call that has not
\* terminated can always take its next step.
C15_TerminatesWithinCap ==
    /\ [][Rank' > Rank]_vars
    /\ [](/\ Rank <= 10 * max_iter + 9
          /\ (~Terminated => CanStep)
          /\ f_calls <= max_iter /\ fprime_calls <= max_iter
          /\ f_calls = fprime_calls
          /\ f_calls \in {iters, iters + 1}
          /\ f_at = fprime_at)

\* a run that never converged and was ended by the cap alone
C15_Witness ==
    /\ pc = "aborted"
    /\ max_iter >= 3
    /\ f_calls = max_iter - 1
    /\ fprime_calls = max_iter - 1
    /\ f_at = mem[old_R]

\* C16: newtons_method leaves its inputs unchanged: at every point of a call
\* and after it, whether it converged or hit the cap, the caller's object R0
\* holds the value it had when the call was made and args holds the value it
\* had when the call was made; every write goes to an object the call
\* created, so once an iteration has run R is no longer the caller's object.
C16_InputsUnchanged ==
    /\ mem["R0"] = R0
    /\ args = args0
    /\ (iters >= 1 /\ pc \in {"while", "cap", "eval", "return", "converged",
                               "aborted"}) => R # "R0"

C16_Witness ==
    /\ pc \in {"converged", "aborted"}
    /\ R0.shape = "vector"
    /\ Len(ind) > 0
    /\ iters >= 2
    /\ ret.R # R0
    /\ mem["R0"] = R0
    /\ args = args0
====
